---- MODULE Spec2Model ----
(***************************************************************************)
(* Digital wallet: the deposit, withdraw and transfer handlers of          *)
(* routes/wallet.js over the Wallet and Transaction collections, the      *)
(* fraud rules and the daily job of services/fraudDetection.js, and the    *)
(* soft delete of routes/admin.js.                                         *)
(*                                                                         *)
(* Amounts are integers in the smallest unit the validation allows         *)
(* (two decimals: cents).  The store is MongoDB seen through Mongoose 7:   *)
(* reads made without a session see the last committed documents, writes   *)
(* made with { session } stay in the transaction until commitTransaction.  *)
(***************************************************************************)
EXTENDS Integers, Sequences, FiniteSets, TLC

VARIABLES
    wallets,    \* committed Wallet collection: userId -> document
    log,        \* committed Transaction collection: set of documents
    pc,         \* per request: position of its handler
    req,        \* per request: req.user._id and req.body
    fraudCheck, \* per request: result of checkFraudRules
    docS,       \* per request: the wallet document read for req.user._id
    docR,       \* per request: the wallet document read for toUserId
    pend,       \* per request: wallet saves of the Promise.all not yet issued
    txn,        \* per request: the session's uncommitted writes
    outcome,    \* per request: the response sent
    cause,      \* per request: the error caught by the handler, if any
    attempts,   \* per request: times the caller has submitted it
    applied,    \* per request: writes of it that readers can see (history)
    env,        \* per request of a sequence: how the fraud evaluation went:
                \* whether its queries answered, and what became of the
                \* alert (history)
    served,     \* requests that have taken the place of a finished one
    fIn,        \* a call of checkFraudRules on its own: the arguments and
                \* the documents its queries see
    fOut,       \* ... what it returned
    fDone,      \* ... whether it has returned
    scanIn,     \* a run of fraudDetectionJob: the documents of the Transaction
                \* collection and whether its query answers
    scanOut,    \* ... what it returned
    scanDone    \* ... whether it has returned

mvars == <<wallets, log, pc, req, fraudCheck, docS, docR, pend, txn, outcome,
           cause, attempts, applied, env, served>>
fvars == <<fIn, fOut, fDone>>
jvars == <<scanIn, scanOut, scanDone>>
vars == <<mvars, fvars, jvars>>

----------------------------------------------------------------------------
\* Bounds of the model

MaxAttempts == 2
InitBalanceUnits == 2
MaxSeq == 6

\* Program constants
CentsPerUnit == 100
HIGH_FREQUENCY_LIMIT == 5
LARGE_AMOUNT_THRESHOLD == 10000
SUSPICIOUS_PATTERN_TIME_WINDOW == 3600000
SUSPICIOUS_MIN_COUNT == 3
SUSPICIOUS_MIN_TOTAL == 5000
DAILY_LIMIT == 20

\* Request slots: two requests in flight at a time.  (Three, over one amount,
\* one currency and callers 1 and 2, give 4,305,576 states and the same
\* verdicts for the invariants of C1, C4, C5, C6, C8, C18 and for C17.)
Ops == {1, 2}
UserIds == {1, 2, 3}
WalletOwners == {1, 2}
Currencies == {"USD", "EUR"}
NoUser == 0

----------------------------------------------------------------------------
\* ObjectId <-> string.  toString() gives the lower-case hex form; casting a
\* string to an ObjectId accepts the hex digits in either case.

toString(id) ==
    CASE id = 1 -> "a1"
      [] id = 2 -> "a2"
      [] id = 3 -> "a3"

CastObjectId(s) ==
    CASE s \in {"a1", "A1"} -> 1
      [] s \in {"a2", "A2"} -> 2
      [] s \in {"a3", "A3"} -> 3

ToUserIdInputs == {"a1", "A1", "a2", "A2", "a3"}

----------------------------------------------------------------------------
\* Numbers of the request body.  req.body.amount is what the JSON parser left
\* there: validateTransaction validates a converted copy and discards it, so a
\* numeric string stays a string.  [n |-> value in cents, str |-> is a string]

NumberAmounts == {[n |-> 100, str |-> FALSE], [n |-> 200, str |-> FALSE]}
StringAmounts == {[n |-> 100, str |-> TRUE]}
AmountInputs == NumberAmounts \cup StringAmounts

RECURSIVE Pow10Above(_, _)
\* The least power of ten above n, from p: 10 for one digit, 100 for two.
Pow10Above(n, p) == IF n < p THEN p ELSE Pow10Above(n, p * 10)

\* JavaScript `balance += amount` followed by the schema's cast to Number:
\* a number is added; a string is appended to the balance's decimal form
\* (whole units here) and the result parsed.
JsPlus(balance, amount) ==
    IF amount.str
    THEN LET bu == balance \div CentsPerUnit
             au == amount.n \div CentsPerUnit
         IN  (bu * Pow10Above(au, 10) + au) * CentsPerUnit
    ELSE balance + amount.n

\* `balance -= amount` and `balance < amount` coerce a string to a number.
JsMinus(balance, amount) == balance - amount.n
JsLess(balance, amount) == balance < amount.n

----------------------------------------------------------------------------
\* Wallet documents

NoDoc == [exists |-> FALSE, balances |-> <<>>, v |-> 0, isDeleted |-> FALSE]

\* balances.findIndex(b => b.currency === currency); 0 when there is none
FindIndex(balances, currency) ==
    IF \E i \in 1..Len(balances) : balances[i].currency = currency
    THEN CHOOSE i \in 1..Len(balances) :
            /\ balances[i].currency = currency
            /\ \A j \in 1..(i - 1) : balances[j].currency # currency
    ELSE 0

\* The amount a reader finds for a currency; an absent entry reads as zero
BalanceOf(doc, currency) ==
    LET i == FindIndex(doc.balances, currency)
    IN  IF i = 0 THEN 0 ELSE doc.balances[i].amount

InitWallets ==
    [u \in UserIds |->
        IF u \in WalletOwners
        THEN [exists |-> TRUE,
              balances |-> <<[currency |-> "USD", amount |-> InitBalanceUnits * CentsPerUnit]>>,
              v |-> 0, isDeleted |-> FALSE]
        ELSE NoDoc]

----------------------------------------------------------------------------
\* Fraud rules (checkFraudRules)

NotFlagged == [isFlagged |-> FALSE, flagReason |-> "none"]
Flagged(reason) == [isFlagged |-> TRUE, flagReason |-> reason]

RECURSIVE SumAmounts(_)
\* recentWithdrawals.reduce((sum, tx) => sum + tx.amount, 0)
SumAmounts(txs) ==
    IF txs = {} THEN 0
    ELSE LET t == CHOOSE x \in txs : TRUE
         IN  t.amount + SumAmounts(txs \ {t})

\* Transaction.countDocuments({$or: [{fromUserId}, {toUserId}],
\*                             createdAt: {$gte: oneHourAgo}, isDeleted: false})
RecentTransactions(txs, userId, oneHourAgo) ==
    {t \in txs : /\ (t.fromUserId = userId \/ t.toUserId = userId)
                 /\ t.createdAt >= oneHourAgo
                 /\ ~t.isDeleted}

\* The withdrawals query with $gt for $gte
RecentWithdrawalsStrict(txs, userId, oneHourAgo) ==
    {t \in txs : /\ t.fromUserId = userId
                 /\ t.type = "withdrawal"
                 /\ t.createdAt > oneHourAgo
                 /\ ~t.isDeleted}

\* Transaction.find({fromUserId, type: 'withdrawal',
\*                   createdAt: {$gte: oneHourAgo}, isDeleted: false})
RecentWithdrawals(txs, userId, oneHourAgo) ==
    {t \in txs : /\ t.fromUserId = userId
                 /\ t.type = "withdrawal"
                 /\ t.createdAt >= oneHourAgo
                 /\ ~t.isDeleted}

\* The alert as a call that lets its error escape: no try/catch around it
sendAlertEmailThrows(alertOk) == [threw |-> ~alertOk, success |-> alertOk]

\* sendAlertEmail: logs the alert; whatever fails inside is caught and turned
\* into { success: false }, so the call never throws
sendAlertEmail(alertOk) == [threw |-> FALSE, success |-> alertOk]

\* A catch block that reports the failure as a flag
OnEvaluationErrorFlagged == Flagged("manual_review")

\* catch (error): console.error, return { isFlagged: false, flagReason: null }
OnEvaluationError == NotFlagged

\* `await sendAlertEmail(...); return { isFlagged: true, flagReason }` inside
\* the try block: an alert that threw would end in the catch block
AlertAndFlag(reason, alertOk) ==
    IF sendAlertEmail(alertOk).threw THEN OnEvaluationError ELSE Flagged(reason)

\* The high-frequency rule with > for >=
IsHighFrequencyStrict(count) == count > HIGH_FREQUENCY_LIMIT

\* `recentTransactions >= FRAUD_RULES.HIGH_FREQUENCY_LIMIT`
IsHighFrequency(count) == count >= HIGH_FREQUENCY_LIMIT

\* The large-amount rule with > for >=
IsLargeAmountStrict(amount) == amount.n > LARGE_AMOUNT_THRESHOLD * CentsPerUnit

\* `amount >= FRAUD_RULES.LARGE_AMOUNT_THRESHOLD` (a numeric string compares
\* as its number)
IsLargeAmount(amount) == amount.n >= LARGE_AMOUNT_THRESHOLD * CentsPerUnit

\* The try block of checkFraudRules over the documents `txs` its queries see
\* at time `now`; queryOk = FALSE is a query that throws (the catch block),
\* alertOk = FALSE an alert that fails.
checkFraudRules(userId, transactionType, amount, txs, now, queryOk, alertOk) ==
    LET oneHourAgo == now - SUSPICIOUS_PATTERN_TIME_WINDOW
        recentTransactions == Cardinality(RecentTransactions(txs, userId, oneHourAgo))
        recentWithdrawals == RecentWithdrawals(txs, userId, oneHourAgo)
        totalWithdrawn == SumAmounts(recentWithdrawals)
    IN  IF ~queryOk THEN OnEvaluationError
        ELSE IF IsHighFrequency(recentTransactions)
             THEN AlertAndFlag("high_frequency", alertOk)
        ELSE IF IsLargeAmount(amount)
             THEN AlertAndFlag("large_amount", alertOk)
        ELSE IF /\ transactionType = "withdrawal"
                /\ Cardinality(recentWithdrawals) >= SUSPICIOUS_MIN_COUNT
                /\ totalWithdrawn >= SUSPICIOUS_MIN_TOTAL * CentsPerUnit
             THEN AlertAndFlag("suspicious_pattern", alertOk)
        ELSE NotFlagged

\* `tx.fromUserId?._id || tx.toUserId?._id`: the one user a record is
\* counted for, its source when it has one, else its destination
CountedUser(tx) == IF tx.fromUserId # NoUser THEN tx.fromUserId ELSE tx.toUserId

\* Transaction.find({createdAt: {$gte: yesterday, $lt: today}, isDeleted: false})
YesterdayTransactions(txs, yesterday, today) ==
    {t \in txs : t.createdAt >= yesterday /\ t.createdAt < today /\ ~t.isDeleted}

NoReport == [error |-> FALSE, scannedTransactions |-> 0, suspiciousUsers |-> 0,
             details |-> {}]

\* fraudDetectionJob over the documents `txs` of the collection, between the
\* two midnights; queryOk = FALSE is a query that throws (the catch block,
\* which returns { error })
fraudDetectionJob(txs, yesterday, today, queryOk) ==
    LET yesterdayTransactions == YesterdayTransactions(txs, yesterday, today)
        userTransactionCount(u) ==
            Cardinality({t \in yesterdayTransactions : CountedUser(t) = u})
        suspiciousUsers ==
            {[userId |-> u, transactionCount |-> userTransactionCount(u),
              reason |-> "excessive_daily_transactions"] :
                u \in {x \in UserIds : userTransactionCount(x) > DAILY_LIMIT}}
    IN  IF ~queryOk THEN [NoReport EXCEPT !.error = TRUE]
        ELSE [error |-> FALSE,
              scannedTransactions |-> Cardinality(yesterdayTransactions),
              suspiciousUsers |-> Cardinality(suspiciousUsers),
              details |-> suspiciousUsers]

----------------------------------------------------------------------------
\* Requests, sessions and the documents a handler builds

Callers == UserIds
Kinds == {"deposit", "withdrawal", "transfer"}
Now == 0

NoReq == [user |-> NoUser, kind |-> "none", to |-> NoUser,
          amount |-> [n |-> 0, str |-> FALSE], currency |-> "USD"]
NoTxn == [writes |-> <<>>, rec |-> {}, snap |-> FALSE, stale |-> {}]
NoneApplied == [S |-> 0, R |-> 0, T |-> 0]
NoEnv == [queryOk |-> TRUE, alert |-> "none"]

\* new Transaction({...}): the handler names no status, so the document
\* starts with the schema's default, 'pending'
NewTransaction(o) ==
    [id |-> <<o, attempts[o], served>>,
     fromUserId |-> IF req[o].kind = "deposit" THEN NoUser ELSE req[o].user,
     toUserId |-> IF req[o].kind = "deposit" THEN req[o].user ELSE req[o].to,
     type |-> req[o].kind,
     amount |-> req[o].amount.n,
     currency |-> req[o].currency,
     status |-> "pending",
     isFlagged |-> fraudCheck[o].isFlagged,
     flagReason |-> fraudCheck[o].flagReason,
     isDeleted |-> FALSE,
     createdAt |-> Now]

\* The document saved with the status it was created with
PendingRecord(o) == NewTransaction(o)

\* `transaction.status = 'completed'` right before transaction.save: the
\* document the save sends
CompletedRecord(o) == [NewTransaction(o) EXCEPT !.status = "completed"]

\* `balances[i].amount += amount`, or `balances.push({currency, amount})`
\* when the document read has no entry: what save() then sends, a $set of
\* the one array position to the new amount, guarded by the version read, or
\* a $push that increments the version.  delta is the change the handler
\* computed, amount the value it sends.
CreditUpdate(leg, w, doc, currency, amount) ==
    LET i == FindIndex(doc.balances, currency)
    IN  IF i > 0
        THEN [leg |-> leg, w |-> w, op |-> "set", idx |-> i, currency |-> currency,
              amount |-> JsPlus(doc.balances[i].amount, amount),
              delta |-> JsPlus(doc.balances[i].amount, amount) - doc.balances[i].amount,
              v |-> doc.v]
        ELSE [leg |-> leg, w |-> w, op |-> "push", idx |-> 0, currency |-> currency,
              amount |-> amount.n, delta |-> amount.n, v |-> doc.v]

\* `balance.amount -= amount` on the entry found in the document read
DebitUpdate(leg, w, doc, currency, amount) ==
    LET i == FindIndex(doc.balances, currency)
    IN  [leg |-> leg, w |-> w, op |-> "set", idx |-> i, currency |-> currency,
         amount |-> JsMinus(doc.balances[i].amount, amount),
         delta |-> JsMinus(doc.balances[i].amount, amount) - doc.balances[i].amount,
         v |-> doc.v]

\* The update wallet.save() sends for one wallet of request o
WalletUpdate(o, leg) ==
    IF leg = "R"
    THEN CreditUpdate("R", req[o].to, docR[o], req[o].currency, req[o].amount)
    ELSE IF req[o].kind = "deposit"
    THEN CreditUpdate("S", req[o].user, docS[o], req[o].currency, req[o].amount)
    ELSE DebitUpdate("S", req[o].user, docS[o], req[o].currency, req[o].amount)

\* The update sent as a relative change ($inc of delta) instead of the
\* absolute amount
ApplyUpdateInc(doc, u) ==
    IF u.op = "set"
    THEN [doc EXCEPT !.balances[u.idx].amount = @ + u.delta]
    ELSE [doc EXCEPT !.balances = Append(@, [currency |-> u.currency, amount |-> u.amount]),
                     !.v = @ + 1]

\* The update applied to the first entry of the array instead of the
\* position it names
ApplyUpdateFirstEntry(doc, u) ==
    IF u.op = "set"
    THEN [doc EXCEPT !.balances[1].amount = u.amount]
    ELSE [doc EXCEPT !.balances = Append(@, [currency |-> u.currency, amount |-> u.amount]),
                     !.v = @ + 1]

\* The store applying one update to a document
ApplyUpdate(doc, u) ==
    IF u.op = "set"
    THEN [doc EXCEPT !.balances[u.idx].amount = u.amount]
    ELSE [doc EXCEPT !.balances = Append(@, [currency |-> u.currency, amount |-> u.amount]),
                     !.v = @ + 1]

RECURSIVE ApplyWrites(_, _, _)
\* Document w after the updates of `writes` that address it, in order
ApplyWrites(doc, w, writes) ==
    IF writes = <<>> THEN doc
    ELSE ApplyWrites(IF Head(writes).w = w THEN ApplyUpdate(doc, Head(writes)) ELSE doc,
                     w, Tail(writes))

\* What session o's next statement sees of wallet w: the committed document
\* with the session's own writes
TxnView(o, w) == ApplyWrites(wallets[w], w, txn[o].writes)

Written(o) == {txn[o].writes[i].w : i \in 1..Len(txn[o].writes)}

\* The store refuses a write to a document that another open transaction
\* has written, or that was committed after this transaction's snapshot
WriteConflict(o, w) ==
    \/ w \in txn[o].stale
    \/ \E p \in Ops \ {o} : w \in Written(p)

\* A positional $set carries {__v: version read}; no document matches when
\* the version has moved on (Mongoose's VersionError)
VersionMismatch(o, u) == u.op = "set" /\ TxnView(o, u.w).v # u.v

----------------------------------------------------------------------------
\* Handler steps.  A step runs the handler from one store round trip to the
\* next; between steps other requests run.

\* The check without the comparison: only `!balance`
MissingEntryOnly(doc, currency, amount) == FindIndex(doc.balances, currency) = 0

\* `!balance || balance.amount < amount`
InsufficientFunds(doc, currency, amount) ==
    LET i == FindIndex(doc.balances, currency)
    IN  i = 0 \/ JsLess(doc.balances[i].amount, amount)

\* `req.user._id.toString() === toUserId`
IsSelfTransfer(user, toUserId) == toString(user) = toUserId

\* catch: abortTransaction, 500; finally: endSession
Abort(o, why) ==
    /\ pc' = [pc EXCEPT ![o] = "aborted"]
    /\ outcome' = [outcome EXCEPT ![o] = "Error500"]
    /\ cause' = [cause EXCEPT ![o] = why]
    /\ txn' = [txn EXCEPT ![o] = NoTxn]
    /\ pend' = [pend EXCEPT ![o] = {}]

\* catch after commitTransaction threw: the session already counts as
\* committed, so abortTransaction throws in turn and no response is sent;
\* finally: endSession.  The store has dropped the transaction.
AbortUnanswered(o, why) ==
    /\ pc' = [pc EXCEPT ![o] = "aborted"]
    /\ outcome' = [outcome EXCEPT ![o] = "none"]
    /\ cause' = [cause EXCEPT ![o] = why]
    /\ txn' = [txn EXCEPT ![o] = NoTxn]
    /\ pend' = [pend EXCEPT ![o] = {}]

\* `return res.status(4xx)` inside try; finally: endSession, which drops the
\* transaction it finds open
Return(o, what) ==
    /\ pc' = [pc EXCEPT ![o] = "returned"]
    /\ outcome' = [outcome EXCEPT ![o] = what]
    /\ txn' = [txn EXCEPT ![o] = NoTxn]
    /\ pend' = [pend EXCEPT ![o] = {}]
    /\ UNCHANGED cause

\* From the top of the try block to the first wallet query: the fraud rules
\* are evaluated over the committed log; its queries answer or not, and so
\* does the alert
Begin(o, r, queryOk, alertOk) ==
    /\ fraudCheck' = [fraudCheck EXCEPT ![o] =
          checkFraudRules(r.user, r.kind, r.amount, log, Now, queryOk, alertOk)]
    /\ pc' = [pc EXCEPT ![o] = "read"]
    /\ pend' = [pend EXCEPT ![o] = IF r.kind = "transfer" THEN {"S", "R"} ELSE {"S"}]
    /\ outcome' = [outcome EXCEPT ![o] = "none"]
    /\ cause' = [cause EXCEPT ![o] = "none"]
    /\ UNCHANGED txn

\* The handler takes the request of `user` with this body, up to its first
\* wallet query: the self-transfer check of POST /transfer, then Begin
Accept(o, user, kind, amount, currency, toUserId, queryOk, alertOk) ==
    LET r == [user |-> user, kind |-> kind,
              to |-> IF kind = "transfer" THEN CastObjectId(toUserId) ELSE NoUser,
              amount |-> amount, currency |-> currency]
    IN  /\ req' = [req EXCEPT ![o] = r]
        /\ attempts' = [attempts EXCEPT ![o] = 1]
        /\ IF kind = "transfer" /\ IsSelfTransfer(user, toUserId)
           THEN /\ Return(o, "SelfTransfer")
                /\ fraudCheck' = [fraudCheck EXCEPT ![o] = NotFlagged]
           ELSE Begin(o, r, queryOk, alertOk)

\* A caller posts /deposit, /withdraw or /transfer
Submit(o) ==
    /\ pc[o] = "idle"
    /\ \A p \in Ops : p < o => pc[p] # "idle"
    /\ \E user \in Callers, kind \in Kinds, amount \in AmountInputs,
          currency \in Currencies, toUserId \in ToUserIdInputs,
          queryOk \in BOOLEAN, alertOk \in BOOLEAN :
          /\ kind # "transfer" => toUserId = "a1"
          /\ Accept(o, user, kind, amount, currency, toUserId, queryOk, alertOk)
    /\ UNCHANGED <<wallets, log, docS, docR, applied, env, served, fvars, jvars>>

\* The same statements without `if (!receiverWallet)`
AfterReadsNoRecipientCheck(o, s, r) ==
    IF ~s.exists
    THEN Abort(o, "TypeError")
    ELSE IF req[o].kind # "deposit" /\ InsufficientFunds(s, req[o].currency, req[o].amount)
    THEN Return(o, "InsufficientFunds")
    ELSE /\ pc' = [pc EXCEPT ![o] = "save"]
         /\ pend' = [pend EXCEPT ![o] = IF req[o].kind = "transfer" THEN {"S", "R"} ELSE {"S"}]
         /\ UNCHANGED <<outcome, cause, txn>>

\* The same statements with a flagged request refused as well
AfterReadsRefusingFlagged(o, s, r) ==
    IF req[o].kind = "transfer" /\ ~r.exists
    THEN Return(o, "RecipientNotFound")
    ELSE IF ~s.exists
    THEN Abort(o, "TypeError")
    ELSE IF \/ fraudCheck[o].isFlagged
            \/ req[o].kind # "deposit" /\ InsufficientFunds(s, req[o].currency, req[o].amount)
    THEN Return(o, "InsufficientFunds")
    ELSE /\ pc' = [pc EXCEPT ![o] = "save"]
         /\ pend' = [pend EXCEPT ![o] = IF req[o].kind = "transfer" THEN {"S", "R"} ELSE {"S"}]
         /\ UNCHANGED <<outcome, cause, txn>>

\* The same statements with the record saved before the wallets
AfterReadsLoggingFirst(o, s, r) ==
    IF req[o].kind = "transfer" /\ ~r.exists
    THEN Return(o, "RecipientNotFound")
    ELSE IF ~s.exists
    THEN Abort(o, "TypeError")
    ELSE IF req[o].kind # "deposit" /\ InsufficientFunds(s, req[o].currency, req[o].amount)
    THEN Return(o, "InsufficientFunds")
    ELSE /\ pc' = [pc EXCEPT ![o] = "saveT"]
         /\ pend' = [pend EXCEPT ![o] = {}]
         /\ UNCHANGED <<outcome, cause, txn>>

\* The statements after the wallet queries, on the documents they returned
AfterReads(o, s, r) ==
    IF req[o].kind = "transfer" /\ ~r.exists
    THEN Return(o, "RecipientNotFound")
    ELSE IF ~s.exists
    THEN Abort(o, "TypeError")
    ELSE IF req[o].kind # "deposit" /\ InsufficientFunds(s, req[o].currency, req[o].amount)
    THEN Return(o, "InsufficientFunds")
    ELSE /\ pc' = [pc EXCEPT ![o] = "save"]
         /\ pend' = [pend EXCEPT ![o] = IF req[o].kind = "transfer" THEN {"S", "R"} ELSE {"S"}]
         /\ UNCHANGED <<outcome, cause, txn>>

\* Wallet.findOne({ userId }) answers: no session, so the committed document
ReadWallet(o, leg) ==
    /\ pc[o] = "read"
    /\ leg \in pend[o]
    /\ LET s == IF leg = "S" THEN wallets[req[o].user] ELSE docS[o]
           r == IF leg = "R" THEN wallets[req[o].to] ELSE docR[o]
       IN  /\ docS' = [docS EXCEPT ![o] = s]
           /\ docR' = [docR EXCEPT ![o] = r]
           /\ IF pend[o] \ {leg} # {}
              THEN /\ pend' = [pend EXCEPT ![o] = @ \ {leg}]
                   /\ UNCHANGED <<pc, outcome, cause, txn>>
              ELSE AfterReads(o, s, r)
    /\ UNCHANGED <<wallets, log, req, fraudCheck, attempts, applied, env, served, fvars, jvars>>

\* A store that holds a write back while another open transaction has
\* written the document (a lock waited for) instead of refusing it
SaveErrorsWaiting(o, u) ==
    IF \E p \in Ops \ {o} : u.w \in Written(p)
    THEN {}
    ELSE {"SaveWalletError"}
           \cup (IF u.amount < 0 THEN {"ValidationError"} ELSE {})
           \cup (IF WriteConflict(o, u.w) THEN {"WriteConflict"} ELSE {})
           \cup (IF ~WriteConflict(o, u.w) /\ VersionMismatch(o, u) THEN {"VersionError"} ELSE {})

\* The errors wallet.save({ session }) can end with for update u: the
\* store or the connection failing, the schema's min: 0, a write conflict,
\* a version that moved on
SaveErrors(o, u) ==
    {"SaveWalletError"}
      \cup (IF u.amount < 0 THEN {"ValidationError"} ELSE {})
      \cup (IF WriteConflict(o, u.w) THEN {"WriteConflict"} ELSE {})
      \cup (IF ~WriteConflict(o, u.w) /\ VersionMismatch(o, u) THEN {"VersionError"} ELSE {})

\* A save without { session }: the update is applied to the collection at
\* once, outside the transaction
SaveWithoutSession(o, u) ==
    /\ wallets' = [wallets EXCEPT ![u.w] = ApplyUpdate(@, u)]
    /\ applied' = [applied EXCEPT ![o][u.leg] = @ + 1]
    /\ txn' = [txn EXCEPT ![o].snap = TRUE]

\* A save that succeeds: the update joins the session's transaction
SaveInSession(o, u) ==
    /\ txn' = [txn EXCEPT ![o].writes = Append(@, u), ![o].snap = TRUE]
    /\ UNCHANGED <<wallets, applied>>

\* wallet.save({ session }) of one wallet
SaveWallet(o, leg) ==
    /\ pc[o] = "save"
    /\ leg \in pend[o]
    /\ LET u == WalletUpdate(o, leg)
       IN  \/ /\ SaveErrors(o, u) = {"SaveWalletError"}
              /\ SaveInSession(o, u)
              /\ pend' = [pend EXCEPT ![o] = @ \ {leg}]
              /\ pc' = [pc EXCEPT ![o] = IF pend[o] = {leg} THEN "saveT" ELSE "save"]
              /\ UNCHANGED <<outcome, cause>>
           \/ /\ \E why \in SaveErrors(o, u) : Abort(o, why)
              /\ UNCHANGED <<wallets, applied>>
    /\ UNCHANGED <<log, req, fraudCheck, docS, docR, attempts, env, served, fvars, jvars>>

\* transaction.save({ session })
SaveTransaction(o) ==
    /\ pc[o] = "saveT"
    /\ \/ /\ txn' = [txn EXCEPT ![o].rec = {CompletedRecord(o)}, ![o].snap = TRUE]
          /\ pc' = [pc EXCEPT ![o] = "commit"]
          /\ UNCHANGED <<outcome, cause, pend>>
       \/ Abort(o, "SaveTransactionError")
    /\ UNCHANGED <<wallets, log, req, fraudCheck, docS, docR, attempts, applied, env,
                   served, fvars, jvars>>

\* A commit that puts the session's record in the place of the collection
CommitWritesReplacingLog(o) ==
    /\ wallets' = [w \in UserIds |-> TxnView(o, w)]
    /\ log' = txn[o].rec
    /\ applied' = [applied EXCEPT ![o] =
          [S |-> @.S + Cardinality({i \in 1..Len(txn[o].writes) : txn[o].writes[i].leg = "S"}),
           R |-> @.R + Cardinality({i \in 1..Len(txn[o].writes) : txn[o].writes[i].leg = "R"}),
           T |-> @.T + Cardinality(txn[o].rec)]]

\* The writes of the session become visible together
CommitWrites(o) ==
    /\ wallets' = [w \in UserIds |-> TxnView(o, w)]
    /\ log' = log \cup txn[o].rec
    /\ applied' = [applied EXCEPT ![o] =
          [S |-> @.S + Cardinality({i \in 1..Len(txn[o].writes) : txn[o].writes[i].leg = "S"}),
           R |-> @.R + Cardinality({i \in 1..Len(txn[o].writes) : txn[o].writes[i].leg = "R"}),
           T |-> @.T + Cardinality(txn[o].rec)]]

\* session.commitTransaction() and the 200 response
Commit(o) ==
    /\ pc[o] = "commit"
    /\ \/ /\ CommitWrites(o)
          /\ txn' = [p \in Ops |->
                IF p = o THEN NoTxn
                ELSE IF txn[p].snap THEN [txn[p] EXCEPT !.stale = @ \cup Written(o)]
                ELSE txn[p]]
          /\ pc' = [pc EXCEPT ![o] = "done"]
          /\ outcome' = [outcome EXCEPT ![o] = "OK"]
          /\ UNCHANGED <<cause, pend>>
       \/ /\ AbortUnanswered(o, "CommitError")
          /\ UNCHANGED <<wallets, log, applied>>
    /\ UNCHANGED <<req, fraudCheck, docS, docR, attempts, env, served, fvars, jvars>>

\* The errors that report a conflicting concurrent write
Conflicts == {"WriteConflict", "VersionError"}

\* The caller posts the same request again after a 500 that reported a
\* conflicting write
Resubmit(o) ==
    /\ pc[o] = "aborted"
    /\ cause[o] \in Conflicts
    /\ attempts[o] < MaxAttempts
    /\ attempts' = [attempts EXCEPT ![o] = @ + 1]
    /\ \E queryOk \in BOOLEAN, alertOk \in BOOLEAN : Begin(o, req[o], queryOk, alertOk)
    /\ UNCHANGED <<wallets, log, req, docS, docR, applied, env, served, fvars, jvars>>

NoFraudInput == [userId |-> NoUser, transactionType |-> "none",
                 amount |-> [n |-> 0, str |-> FALSE], txs |-> {}, queryOk |-> TRUE,
                 alertOk |-> TRUE]

NoScanInput == [out1 |-> 0, dep1 |-> 0, t12 |-> 0, t21 |-> 0, edge |-> {},
                queryOk |-> TRUE]

InitScanIdle ==
    /\ scanIn = NoScanInput
    /\ scanOut = NoReport
    /\ scanDone = FALSE

InitHandlers ==
    /\ wallets = InitWallets
    /\ log = {}
    /\ pc = [o \in Ops |-> "idle"]
    /\ req = [o \in Ops |-> NoReq]
    /\ fraudCheck = [o \in Ops |-> NotFlagged]
    /\ docS = [o \in Ops |-> NoDoc]
    /\ docR = [o \in Ops |-> NoDoc]
    /\ pend = [o \in Ops |-> {}]
    /\ txn = [o \in Ops |-> NoTxn]
    /\ outcome = [o \in Ops |-> "none"]
    /\ cause = [o \in Ops |-> "none"]
    /\ attempts = [o \in Ops |-> 0]
    /\ applied = [o \in Ops |-> NoneApplied]
    /\ env = [o \in Ops |-> NoEnv]
    /\ served = 0

Init ==
    /\ InitHandlers
    /\ fIn = NoFraudInput
    /\ fOut = NotFlagged
    /\ fDone = FALSE
    /\ InitScanIdle

Next ==
    \E o \in Ops :
        \/ Submit(o)
        \/ \E leg \in {"S", "R"} : ReadWallet(o, leg)
        \/ \E leg \in {"S", "R"} : SaveWallet(o, leg)
        \/ SaveTransaction(o)
        \/ Commit(o)
        \/ Resubmit(o)

Spec == Init /\ [][Next]_vars

----------------------------------------------------------------------------
\* One user's requests one after another: each is posted when the one before
\* has been answered (or has ended without an answer), all within one hour.

SeqSlot == 1
SeqCaller == 1

SeqRequests ==
    { [kind |-> "deposit", amount |-> [n |-> 100, str |-> FALSE], toUserId |-> "a1"],
      [kind |-> "withdrawal", amount |-> [n |-> 100, str |-> FALSE], toUserId |-> "a1"],
      [kind |-> "transfer", amount |-> [n |-> 100, str |-> FALSE], toUserId |-> "a2"] }

\* The next request of the sequence reaches its handler
SubmitSeq ==
    /\ pc[SeqSlot] \in {"idle", "done", "returned", "aborted"}
    /\ served < MaxSeq
    /\ served' = served + 1
    /\ docS' = [docS EXCEPT ![SeqSlot] = NoDoc]
    /\ docR' = [docR EXCEPT ![SeqSlot] = NoDoc]
    /\ applied' = [applied EXCEPT ![SeqSlot] = NoneApplied]
    /\ \E b \in SeqRequests, queryOk \in BOOLEAN, alertOk \in BOOLEAN :
          LET matched == checkFraudRules(SeqCaller, b.kind, b.amount, log, Now,
                                         queryOk, TRUE).isFlagged
          IN  /\ matched \/ alertOk
              /\ Accept(SeqSlot, SeqCaller, b.kind, b.amount, "USD", b.toUserId,
                        queryOk, alertOk)
              /\ env' = [env EXCEPT ![SeqSlot] =
                    [queryOk |-> queryOk,
                     alert |-> IF ~matched THEN "none"
                               ELSE IF alertOk THEN "sent" ELSE "failed"]]
    /\ UNCHANGED <<wallets, log, fvars, jvars>>

NextSeq ==
    \/ SubmitSeq
    \/ \E leg \in {"S", "R"} : ReadWallet(SeqSlot, leg)
    \/ \E leg \in {"S", "R"} : SaveWallet(SeqSlot, leg)
    \/ SaveTransaction(SeqSlot)
    \/ Commit(SeqSlot)

SpecSeq == Init /\ [][NextSeq]_vars

----------------------------------------------------------------------------
\* Transfers between the two wallet owners, in either direction, with the
\* scheduling the runtime gives: every await of a handler ends when the store
\* answers, and the handler's next statements then run.

TransferAmounts == {[n |-> 100, str |-> FALSE], [n |-> 200, str |-> FALSE]}

\* A wallet owner posts /transfer to the other owner
SubmitTransfer(o) ==
    /\ pc[o] = "idle"
    /\ \A p \in Ops : p < o => pc[p] # "idle"
    /\ \E user \in WalletOwners, to \in WalletOwners, amount \in TransferAmounts,
          currency \in Currencies :
          /\ to # user
          /\ Accept(o, user, "transfer", amount, currency, toString(to), TRUE, TRUE)
    /\ UNCHANGED <<wallets, log, docS, docR, applied, env, served, fvars, jvars>>

\* The steps of request o that wait for nothing but the store's answer
HandlerStep(o) ==
    \/ \E leg \in {"S", "R"} : ReadWallet(o, leg)
    \/ \E leg \in {"S", "R"} : SaveWallet(o, leg)
    \/ SaveTransaction(o)
    \/ Commit(o)

NextTransfers ==
    \E o \in Ops :
        \/ SubmitTransfer(o)
        \/ \E leg \in {"S", "R"} : ReadWallet(o, leg)
        \/ \E leg \in {"S", "R"} : SaveWallet(o, leg)
        \/ SaveTransaction(o)
        \/ Commit(o)
        \/ Resubmit(o)

SpecTransfers ==
    Init /\ [][NextTransfers]_vars /\ \A o \in Ops : WF_vars(HandlerStep(o))

----------------------------------------------------------------------------
\* The handlers together with the administrator's soft delete of accounts.

\* Wallet.findOneAndUpdate({ userId }, { isDeleted: true, deletedAt }): the
\* flag is set (the timestamp is not modelled), nothing else of the
\* document is touched
SoftDeleteWallet(doc) == [doc EXCEPT !.isDeleted = TRUE]

\* PATCH /users/:id/soft-delete.  The wallet update is a write outside any
\* session: the store makes it wait while an open transaction has written
\* the document, and refuses later writes to the document by transactions
\* whose snapshot is older.  A user without a wallet matches no document.
SoftDelete(u) ==
    /\ \A o \in Ops : u \notin Written(o)
    /\ wallets' = [wallets EXCEPT ![u] = IF @.exists THEN SoftDeleteWallet(@) ELSE @]
    /\ txn' = [p \in Ops |->
          IF txn[p].snap /\ wallets[u].exists
          THEN [txn[p] EXCEPT !.stale = @ \cup {u}]
          ELSE txn[p]]
    /\ UNCHANGED <<log, pc, req, fraudCheck, docS, docR, pend, outcome, cause,
                   attempts, applied, env, served, fvars, jvars>>

AdminAmounts == {[n |-> 100, str |-> FALSE]}

\* A user posts /deposit, /withdraw or /transfer.  The caller is a user
\* whose account is not soft-deleted: a soft-deleted user is taken not to
\* pass authentication.
SubmitActive(o) ==
    /\ pc[o] = "idle"
    /\ \A p \in Ops : p < o => pc[p] # "idle"
    /\ \E user \in WalletOwners, kind \in Kinds, amount \in AdminAmounts,
          to \in WalletOwners :
          /\ ~wallets[user].isDeleted
          /\ kind # "transfer" => to = 1
          /\ Accept(o, user, kind, amount, "USD", toString(to), TRUE, TRUE)
    /\ UNCHANGED <<wallets, log, docS, docR, applied, env, served, fvars, jvars>>

NextAdmin ==
    \/ \E u \in UserIds : SoftDelete(u)
    \/ \E o \in Ops :
          \/ SubmitActive(o)
          \/ \E leg \in {"S", "R"} : ReadWallet(o, leg)
          \/ \E leg \in {"S", "R"} : SaveWallet(o, leg)
          \/ SaveTransaction(o)
          \/ Commit(o)

SpecAdmin == Init /\ [][NextAdmin]_vars

----------------------------------------------------------------------------
\* checkFraudRules on its own, over bounded histories

OneHourAgo == Now - SUSPICIOUS_PATTERN_TIME_WINDOW

HistoryRecord(id, type, from, to, amount, createdAt, isDeleted) ==
    [id |-> <<0, id>>, fromUserId |-> from, toUserId |-> to, type |-> type,
     amount |-> amount, currency |-> "USD", status |-> "completed",
     isFlagged |-> FALSE, flagReason |-> "none", isDeleted |-> isDeleted,
     createdAt |-> createdAt]

\* Documents a history is drawn from: user 1's withdrawals now, exactly one
\* hour ago and just before; a soft-deleted one; its other records; and a
\* record of another user alone
HistoryPool ==
    { HistoryRecord(1, "withdrawal", 1, NoUser, 2000 * CentsPerUnit, Now, FALSE),
      HistoryRecord(2, "withdrawal", 1, NoUser, 2000 * CentsPerUnit, OneHourAgo, FALSE),
      HistoryRecord(3, "withdrawal", 1, NoUser, 1000 * CentsPerUnit, Now, FALSE),
      HistoryRecord(4, "withdrawal", 1, NoUser, 1000 * CentsPerUnit - 1, Now, FALSE),
      HistoryRecord(5, "withdrawal", 1, NoUser, 2000 * CentsPerUnit, OneHourAgo - 1, FALSE),
      HistoryRecord(6, "withdrawal", 1, NoUser, 2000 * CentsPerUnit, Now, TRUE),
      HistoryRecord(7, "deposit", NoUser, 1, 100, Now, FALSE),
      HistoryRecord(8, "transfer", 2, 1, 100, Now, FALSE),
      HistoryRecord(9, "transfer", 1, 2, 100, OneHourAgo - 1, FALSE),
      HistoryRecord(10, "deposit", NoUser, 2, 100, Now, FALSE) }

FraudAmounts ==
    { [n |-> 100, str |-> FALSE],
      [n |-> LARGE_AMOUNT_THRESHOLD * CentsPerUnit - 1, str |-> FALSE],
      [n |-> LARGE_AMOUNT_THRESHOLD * CentsPerUnit, str |-> FALSE],
      [n |-> LARGE_AMOUNT_THRESHOLD * CentsPerUnit, str |-> TRUE] }

InitFraud ==
    /\ InitHandlers
    /\ fIn \in [userId : {1}, transactionType : Kinds, amount : FraudAmounts,
                 txs : SUBSET HistoryPool, queryOk : BOOLEAN, alertOk : BOOLEAN]
    /\ fOut = NotFlagged
    /\ fDone = FALSE
    /\ InitScanIdle

Evaluate ==
    /\ ~fDone
    /\ fOut' = checkFraudRules(fIn.userId, fIn.transactionType, fIn.amount,
                               fIn.txs, Now, fIn.queryOk, fIn.alertOk)
    /\ fDone' = TRUE
    /\ UNCHANGED <<mvars, fIn, jvars>>

NextFraud == Evaluate

SpecFraud == InitFraud /\ [][NextFraud]_vars

----------------------------------------------------------------------------
\* fraudDetectionJob on its own, over the records of one day

DayMs == 86400000
TodayMidnight == Now
YesterdayMidnight == TodayMidnight - DayMs

DayRecord(tag, i, type, from, to, createdAt, isDeleted) ==
    [id |-> <<tag, i>>, fromUserId |-> from, toUserId |-> to, type |-> type,
     amount |-> 100, currency |-> "USD", status |-> "completed",
     isFlagged |-> FALSE, flagReason |-> "none", isDeleted |-> isDeleted,
     createdAt |-> createdAt]

\* How many records of one shape a day holds
ScanCounts == {0, 1, 19, 20, 21}

\* Withdrawals of user 1 at the edges of the window: at yesterday's
\* midnight, just before it, at today's midnight, and a soft-deleted one
\* inside the window
EdgeRecords ==
    { DayRecord("edge", 1, "withdrawal", 1, NoUser, YesterdayMidnight, FALSE),
      DayRecord("edge", 2, "withdrawal", 1, NoUser, YesterdayMidnight - 1, FALSE),
      DayRecord("edge", 3, "withdrawal", 1, NoUser, TodayMidnight, FALSE),
      DayRecord("edge", 4, "withdrawal", 1, NoUser, TodayMidnight - 1, TRUE) }

\* The collection the counts of an input stand for: so many withdrawals of
\* user 1, deposits of user 1, transfers from 1 to 2 and from 2 to 1 inside
\* the window, and the edge records chosen
DayCollection(in) ==
    {DayRecord("out1", i, "withdrawal", 1, NoUser, TodayMidnight - 1, FALSE) : i \in 1..in.out1}
      \cup {DayRecord("dep1", i, "deposit", NoUser, 1, YesterdayMidnight + 1, FALSE) : i \in 1..in.dep1}
      \cup {DayRecord("t12", i, "transfer", 1, 2, YesterdayMidnight + 1, FALSE) : i \in 1..in.t12}
      \cup {DayRecord("t21", i, "transfer", 2, 1, TodayMidnight - 1, FALSE) : i \in 1..in.t21}
      \cup in.edge

InitScan ==
    /\ InitHandlers
    /\ fIn = NoFraudInput
    /\ fOut = NotFlagged
    /\ fDone = FALSE
    /\ scanIn \in [out1 : ScanCounts, dep1 : ScanCounts, t12 : ScanCounts,
                    t21 : ScanCounts, edge : SUBSET EdgeRecords, queryOk : BOOLEAN]
    /\ scanOut = NoReport
    /\ scanDone = FALSE

RunDailyScan ==
    /\ ~scanDone
    /\ scanOut' = fraudDetectionJob(DayCollection(scanIn), YesterdayMidnight,
                                    TodayMidnight, scanIn.queryOk)
    /\ scanDone' = TRUE
    /\ UNCHANGED <<mvars, fvars, scanIn>>

NextScan == RunDailyScan

SpecScan == InitScan /\ [][NextScan]_vars

----------------------------------------------------------------------------
\* Properties

Debits == {"withdrawal", "transfer"}
RecordsOf(o) == {t \in log : t.id[1] = o}
Credited(u, c) == SumAmounts({t \in log : t.toUserId = u /\ t.currency = c})
Debited(u, c) == SumAmounts({t \in log : t.fromUserId = u /\ t.currency = c})

\* C1: in every reachable state every balance entry of every wallet holds an
\* amount that is not negative.
C1_NonNegative ==
    \A u \in UserIds : \A i \in 1..Len(wallets[u].balances) :
        wallets[u].balances[i].amount >= 0

\* Two debits of the same wallet and currency have both committed and have
\* left the balance at zero.
C1_Witness ==
    \E o \in Ops, p \in Ops :
        /\ o # p
        /\ pc[o] = "done" /\ pc[p] = "done"
        /\ req[o].kind \in Debits /\ req[p].kind \in Debits
        /\ req[o].user = req[p].user /\ req[o].currency = req[p].currency
        /\ BalanceOf(wallets[req[o].user], req[o].currency) = 0

\* C2: in every reachable state each wallet's balance in each currency is its
\* initial balance plus the amounts of the committed records that credit the
\* user in that currency minus the amounts of those that debit the user.
\* Stated for requests whose amount is a JSON number and whose recipient is
\* another user, where only the interleaving can break it.
C2_ExactlyOnce ==
    (\A o \in Ops : /\ ~req[o].amount.str
                    /\ req[o].kind = "transfer" => req[o].to # req[o].user)
    => \A u \in WalletOwners, c \in Currencies :
          BalanceOf(wallets[u], c)
            = BalanceOf(InitWallets[u], c) + Credited(u, c) - Debited(u, c)

\* C3: the commit of a transfer of a in currency c from s to another user d
\* takes s's stored c-balance down by a and d's up by a, and leaves their
\* sum as it was.
C3_Conservation ==
    [][\A o \in Ops :
        (/\ pc[o] = "commit" /\ pc'[o] = "done"
         /\ req[o].kind = "transfer" /\ req[o].to # req[o].user)
        => LET s == req[o].user
               d == req[o].to
               c == req[o].currency
               a == req[o].amount.n
           IN  /\ BalanceOf(wallets'[s], c) = BalanceOf(wallets[s], c) - a
               /\ BalanceOf(wallets'[d], c) = BalanceOf(wallets[d], c) + a
               /\ BalanceOf(wallets'[s], c) + BalanceOf(wallets'[d], c)
                    = BalanceOf(wallets[s], c) + BalanceOf(wallets[d], c)]_vars

\* C4: in every reachable state the writes of a transfer that readers can see
\* are all three of them (source wallet, destination wallet, record) or none.
C4_TransferAtomic ==
    \A o \in Ops : req[o].kind = "transfer" =>
        /\ applied[o].S = applied[o].R
        /\ applied[o].R = applied[o].T
        /\ applied[o].T = Cardinality(RecordsOf(o))

\* A transfer has saved one wallet in its session and not yet the other, and
\* readers see none of its writes.
C4_Witness ==
    \E o \in Ops :
        /\ req[o].kind = "transfer"
        /\ pc[o] = "save"
        /\ Len(txn[o].writes) = 1
        /\ applied[o] = NoneApplied
        /\ RecordsOf(o) = {}

ExceedsBalanceRead(o) ==
    /\ req[o].kind \in Debits
    /\ pc[o] \notin {"idle", "read"}
    /\ docS[o].exists
    /\ req[o].amount.n > BalanceOf(docS[o], req[o].currency)

\* C6 as claimed: a withdrawal or transfer whose amount exceeds the balance
\* answers InsufficientFunds, changes no balance and persists no record.
C6_InsufficientFunds ==
    \A o \in Ops : ExceedsBalanceRead(o) =>
        /\ outcome[o] = "InsufficientFunds"
        /\ applied[o] = NoneApplied /\ RecordsOf(o) = {}

\* C6 amended: the same for a withdrawal, and for a transfer whose recipient
\* has a wallet; a transfer to a user without a wallet answers
\* RecipientNotFound first, also without any write.
C6_InsufficientFundsAmended ==
    \A o \in Ops : ExceedsBalanceRead(o) =>
        /\ outcome[o] = IF req[o].kind = "transfer" /\ ~docR[o].exists
                        THEN "RecipientNotFound" ELSE "InsufficientFunds"
        /\ pc[o] = "returned"
        /\ applied[o] = NoneApplied /\ RecordsOf(o) = {}

\* A transfer to a wallet owner for more than the entry the sender's wallet
\* holds in that currency was refused.
C6_Witness ==
    \E p \in Ops :
        /\ ExceedsBalanceRead(p) /\ req[p].kind = "transfer"
        /\ docR[p].exists
        /\ FindIndex(docS[p].balances, req[p].currency) > 0
        /\ outcome[p] = "InsufficientFunds"

\* C7: a conflicting write is reported to the caller only after the request
\* has been run again at least once (counting even the caller's own
\* resubmissions as runs).
C7_RetriedBeforeSurfacing ==
    \A o \in Ops :
        (pc[o] = "aborted" /\ cause[o] \in Conflicts) => attempts[o] >= 2

\* C8: a request that met a conflict and was posted again has at most one
\* record in the log and each of its balance changes applied at most once,
\* and exactly one record once it has answered 200.
C8_IdempotentRetry ==
    \A o \in Ops :
        /\ Cardinality(RecordsOf(o)) <= 1
        /\ applied[o].S <= 1 /\ applied[o].R <= 1 /\ applied[o].T <= 1
        /\ pc[o] = "done" =>
              /\ Cardinality(RecordsOf(o)) = 1
              /\ applied[o].T = 1 /\ applied[o].S = 1
              /\ applied[o].R = IF req[o].kind = "transfer" THEN 1 ELSE 0
        /\ pc[o] # "done" => RecordsOf(o) = {}

\* A transfer met a conflict, was posted again and committed.
C8_Witness ==
    \E o \in Ops :
        /\ attempts[o] = 2
        /\ pc[o] = "done"
        /\ req[o].kind = "transfer"

\* C9: a transfer whose destination is the caller is answered SelfTransfer
\* without any wallet having been read or written and without a record.
C9_SelfTransferRejected ==
    \A o \in Ops :
        (req[o].kind = "transfer" /\ req[o].to = req[o].user /\ pc[o] # "idle")
        => /\ outcome[o] = "SelfTransfer"
           /\ ~docS[o].exists /\ ~docR[o].exists
           /\ applied[o] = NoneApplied /\ RecordsOf(o) = {}

\* What C10 says evaluate returns, read off the claim
C10_Expected(userId, kind, amount, txs) ==
    LET inHour(t) == t.createdAt >= Now - 3600000 /\ ~t.isDeleted
        mine == {t \in txs : inHour(t) /\ (t.fromUserId = userId \/ t.toUserId = userId)}
        withdrawals == {t \in txs : inHour(t) /\ t.type = "withdrawal" /\ t.fromUserId = userId}
    IN  CASE Cardinality(mine) >= 5 -> <<TRUE, "high_frequency">>
          [] Cardinality(mine) < 5 /\ amount >= 1000000 -> <<TRUE, "large_amount">>
          [] /\ Cardinality(mine) < 5 /\ amount < 1000000 /\ kind = "withdrawal"
             /\ Cardinality(withdrawals) >= 3 /\ SumAmounts(withdrawals) >= 500000
               -> <<TRUE, "suspicious_pattern">>
          [] OTHER -> <<FALSE, "none">>

C16_RecordShape ==
    \A t \in log :
        /\ t.amount > 0
        /\ t.type = "transfer" =>
              t.fromUserId # NoUser /\ t.toUserId # NoUser /\ t.fromUserId # t.toUserId
        /\ t.type = "deposit" => t.toUserId # NoUser /\ t.fromUserId = NoUser
        /\ t.type = "withdrawal" => t.fromUserId # NoUser /\ t.toUserId = NoUser

\* C17: a record that is in the log with status completed is in the log
\* after every step, with the same amount, currency, source, destination and
\* status, whatever the step is: another request's commit, failure or
\* rollback.
C17_RecordsIrrevocable ==
    [][\A t \in log : t.status = "completed" =>
          \E u \in log' : /\ u.id = t.id
                           /\ u.amount = t.amount /\ u.currency = t.currency
                           /\ u.fromUserId = t.fromUserId /\ u.toUserId = t.toUserId
                           /\ u.status = t.status]_vars

\* One request's record is committed; the other request has since written
\* to a wallet of that commit and been rolled back, or has committed too.
C17_Witness ==
    \E o \in Ops, p \in Ops :
        /\ o # p
        /\ pc[o] = "done" /\ \E t \in RecordsOf(o) : t.status = "completed"
        /\ \/ pc[p] = "aborted" /\ cause[p] \in Conflicts
           \/ pc[p] = "done" /\ RecordsOf(p) # {}

\* C18: a transfer (one that was not refused as a self-transfer before any
\* read) whose destination user has no wallet is answered RecipientNotFound;
\* none of its writes is ever visible, so no balance changes and the source
\* is not debited, nothing of it is left in its session, and it has no
\* record.
C18_MissingDestination ==
    \A o \in Ops :
        (/\ req[o].kind = "transfer" /\ pc[o] \notin {"idle", "read"}
         /\ outcome[o] # "SelfTransfer"
         /\ ~wallets[req[o].to].exists)
        => /\ pc[o] = "returned" /\ outcome[o] = "RecipientNotFound"
           /\ applied[o] = NoneApplied /\ txn[o] = NoTxn
           /\ RecordsOf(o) = {}

\* A transfer that the sender's balance covers was refused because the
\* destination has no wallet.
C18_Witness ==
    \E o \in Ops :
        /\ req[o].kind = "transfer" /\ outcome[o] = "RecipientNotFound"
        /\ ~wallets[req[o].to].exists
        /\ docS[o].exists
        /\ BalanceOf(docS[o], req[o].currency) >= req[o].amount.n
        /\ wallets[req[o].user] = InitWallets[req[o].user]

\* C19: a deposit by a user who has no wallet yet does not fail for the lack
\* of it: the wallet is created within the request, seeded with a zero USD
\* entry, so that once the request has committed the user has a wallet with
\* a USD entry.
C19_LazyWalletCreation ==
    \A o \in Ops :
        (/\ req[o].kind = "deposit" /\ pc[o] \notin {"idle", "read"}
         /\ ~InitWallets[req[o].user].exists)
        => /\ ~(pc[o] = "aborted" /\ cause[o] = "TypeError")
           /\ pc[o] = "done" =>
                 /\ wallets[req[o].user].exists
                 /\ FindIndex(wallets[req[o].user].balances, "USD") > 0

\* C20: in every reachable state each wallet holds at most one balance entry
\* per currency.
C20_CurrencyUnique ==
    \A u \in UserIds :
        \A i \in 1..Len(wallets[u].balances), j \in 1..Len(wallets[u].balances) :
            wallets[u].balances[i].currency = wallets[u].balances[j].currency => i = j

\* The phases of an operation as the handler's position shows them: not yet
\* accepted (validating), rules evaluated and wallets being read, wallets
\* being written (mutating_ledger), record being written (logging), commit
\* pending, committed
PhaseRank(p) ==
    CASE p = "idle" -> 0
      [] p = "read" -> 1
      [] p = "save" -> 2
      [] p = "saveT" -> 3
      [] p = "commit" -> 4
      [] p = "done" -> 5
      [] OTHER -> 6
Ended == {"aborted", "returned"}
WalletWritesNeeded(o) == IF req[o].kind = "transfer" THEN 2 ELSE 1

\* C22: every step takes a request to the next phase of validating,
\* evaluating_rules, mutating_ledger, logging, committed, or keeps it in its
\* phase, or ends it (aborted) from any phase before committed; a committed
\* request moves no more and an ended one only by being posted again.  A
\* wallet write joins the session only in mutating_ledger, after the rules
\* were evaluated and before the record is written; the record is written
\* only in logging, with every wallet write made; wallets and log change
\* only by the commit, the last step.
C22_PhaseOrder ==
    [][/\ \A o \in Ops :
            /\ pc'[o] # pc[o] =>
                  \/ PhaseRank(pc[o]) < 5 /\ PhaseRank(pc'[o]) = PhaseRank(pc[o]) + 1
                  \/ PhaseRank(pc[o]) < 5 /\ pc'[o] \in Ended
                  \/ pc[o] = "aborted" /\ pc'[o] = "read" /\ attempts'[o] = attempts[o] + 1
            /\ Len(txn'[o].writes) > Len(txn[o].writes) =>
                  /\ pc[o] = "save" /\ txn[o].rec = {}
                  /\ Len(txn'[o].writes) = Len(txn[o].writes) + 1
            /\ (txn'[o].rec # txn[o].rec /\ txn'[o].rec # {}) =>
                  /\ pc[o] = "saveT" /\ pc'[o] = "commit"
                  /\ Len(txn[o].writes) = WalletWritesNeeded(o)
            /\ pc'[o] = "done" =>
                  pc[o] = "done" \/ (txn[o].rec # {} /\ Len(txn[o].writes) = WalletWritesNeeded(o))
       /\ (wallets' # wallets \/ log' # log) =>
            \E o \in Ops : pc[o] = "commit" /\ pc'[o] = "done"]_vars

\* One transfer has gone through every phase and committed; another request
\* reached the commit and ended there without committing.
C22_Witness ==
    \E o \in Ops, p \in Ops :
        /\ pc[o] = "done" /\ req[o].kind = "transfer" /\ RecordsOf(o) # {}
        /\ pc[p] = "aborted" /\ cause[p] = "CommitError"

\* C23: a request that has left its handler, whether it committed, was
\* refused or failed at a wallet save, at the record save or at the commit,
\* has sent an outcome or an error to its caller, and nothing of it is left
\* in its session.
C23_Termination ==
    \A o \in Ops :
        pc[o] \in {"done", "aborted", "returned"} =>
            /\ outcome[o] # "none"
            /\ txn[o] = NoTxn /\ pend[o] = {}

\* The users whose wallets request o is to change
Participants(o) ==
    IF req[o].kind = "transfer" THEN {req[o].user, req[o].to} ELSE {req[o].user}

\* C25: the commit of an operation in currency c leaves every balance entry
\* of every user who is not a participant as it was, and every entry of a
\* participant in another currency as it was; what it changes or adds are
\* entries in c of the participants.  No other step changes a wallet.
C25_CurrencyFrame ==
    [][/\ \A o \in Ops : (pc[o] = "commit" /\ pc'[o] = "done") =>
            \A u \in UserIds :
                LET old == wallets[u].balances
                    new == wallets'[u].balances
                IN  /\ wallets'[u].exists = wallets[u].exists
                    /\ Len(new) >= Len(old)
                    /\ \A i \in 1..Len(old) :
                          /\ new[i].currency = old[i].currency
                          /\ (u \notin Participants(o) \/ old[i].currency # req[o].currency)
                                => new[i] = old[i]
                    /\ \A i \in (Len(old) + 1)..Len(new) :
                          u \in Participants(o) /\ new[i].currency = req[o].currency
       /\ (\A o \in Ops : ~(pc[o] = "commit" /\ pc'[o] = "done")) => wallets' = wallets]_vars

\* A deposit in EUR and then a transfer in EUR to the other owner have
\* committed, and both owners' USD balances are what they were.
C25_Witness ==
    \E o \in Ops, p \in Ops :
        /\ pc[o] = "done" /\ req[o].kind = "deposit" /\ req[o].currency = "EUR"
        /\ pc[p] = "done" /\ req[p].kind = "transfer" /\ req[p].currency = "EUR"
        /\ req[p].user = req[o].user /\ req[p].to # req[p].user
        /\ BalanceOf(wallets[req[p].to], "EUR") = req[p].amount.n
        /\ \A u \in WalletOwners :
              BalanceOf(wallets[u], "USD") = BalanceOf(InitWallets[u], "USD")

\* C26: for every wallet and currency the committed debits (withdrawals
\* and outgoing transfers) total no more than the funds the wallet was
\* given, its initial balance and the committed credits; and of two debits
\* of one wallet and currency that both read a balance covering either one
\* but not both, at most one commits.  Stated for requests whose amount is a
\* JSON number and whose recipient is another user.
C26_NoDoubleSpend ==
    (\A o \in Ops : /\ ~req[o].amount.str
                    /\ req[o].kind = "transfer" => req[o].to # req[o].user)
    => /\ \A u \in WalletOwners, c \in Currencies :
             Debited(u, c) <= BalanceOf(InitWallets[u], c) + Credited(u, c)
       /\ \A o \in Ops, p \in Ops :
             (/\ o # p
              /\ req[o].kind \in Debits /\ req[p].kind \in Debits
              /\ req[o].user = req[p].user /\ req[o].currency = req[p].currency
              /\ docS[o].exists /\ docS[p].exists
              /\ BalanceOf(docS[o], req[o].currency) = BalanceOf(docS[p], req[p].currency)
              /\ BalanceOf(docS[o], req[o].currency) < req[o].amount.n + req[p].amount.n)
             => ~(pc[o] = "done" /\ pc[p] = "done")

\* C27: every record in the log has status completed, none is ever there
\* with status pending; and a request that has not committed, whether it is
\* still in flight with its record saved in its session, was refused, or
\* was rolled back, has no record in the log.
C27_NoPendingVisible ==
    /\ \A t \in log : t.status = "completed" /\ t.status # "pending"
    /\ \A o \in Ops : pc[o] # "done" => RecordsOf(o) = {}
    /\ \A o \in Ops : pc[o] \in Ended => txn[o].rec = {}

\* One request holds its record in its session, not yet committed, and the
\* log does not show it; the other was rolled back after its record save,
\* and the log holds nothing.
C27_Witness ==
    \E o \in Ops, p \in Ops :
        /\ pc[o] = "commit" /\ txn[o].rec # {} /\ RecordsOf(o) = {}
        /\ pc[p] = "aborted" /\ cause[p] = "CommitError"
        /\ log = {}

InFlight == {"read", "save", "saveT", "commit"}

\* The two requests are transfers in opposite directions between one pair
\* of users
OppositeTransfers ==
    /\ req[1].kind = "transfer" /\ req[2].kind = "transfer"
    /\ req[1].user = req[2].to /\ req[1].to = req[2].user
    /\ req[1].user # req[2].user

\* C24: of two transfers in opposite directions between the same two users
\* that are in flight together, each one eventually commits or ends
\* (aborted or refused): neither waits for the other forever.
C24_NoDeadlock ==
    \A o \in Ops :
        (OppositeTransfers /\ pc[1] \in InFlight /\ pc[2] \in InFlight)
            ~> (pc[o] \in {"done", "aborted", "returned"})

\* Two opposite transfers were in flight together, each having written its
\* own wallet when the other's save arrived: one committed, the other met
\* the conflict and ended.
C24_Witness ==
    \E o \in Ops, p \in Ops :
        /\ OppositeTransfers /\ o # p
        /\ pc[o] = "done"
        /\ pc[p] = "aborted" /\ cause[p] = "WriteConflict"

\* C29: a step that soft-deletes a wallet sets its flag and leaves the
\* document otherwise as it was, balance entries included; and no step
\* changes a balance entry of a wallet that is soft-deleted.
C29_SoftDeletedFrozen ==
    [][\A u \in UserIds :
          /\ (wallets'[u].isDeleted /\ ~wallets[u].isDeleted) =>
                wallets'[u] = [wallets[u] EXCEPT !.isDeleted = TRUE]
          /\ wallets[u].isDeleted =>
                /\ wallets'[u].isDeleted /\ wallets'[u].exists
                /\ wallets'[u].balances = wallets[u].balances]_vars

----------------------------------------------------------------------------
\* Properties of the sequence of one user's requests

\* The record of the request now in the slot, and the records before it
OwnRecords == {t \in log : t.id[3] = served}
PriorRecords == log \ OwnRecords
\* How many records the log held for the user when the request was evaluated
PriorCount ==
    Cardinality({t \in PriorRecords : t.fromUserId = SeqCaller \/ t.toUserId = SeqCaller})

\* C11: of one user's requests posted one after another within an hour, a
\* request evaluated (its queries answering) while the log holds fewer than 5
\* records of the user is not flagged high_frequency; one evaluated when the
\* log holds 5 is flagged high_frequency, and when it commits its record
\* carries isFlagged = TRUE and that reason.  The request's own record is
\* not among those counted.
C11_HighFrequencySequence ==
    (pc[SeqSlot] # "idle" /\ env[SeqSlot].queryOk) =>
        /\ PriorCount < 5 => fraudCheck[SeqSlot].flagReason # "high_frequency"
        /\ PriorCount >= 5 => fraudCheck[SeqSlot] = Flagged("high_frequency")
        /\ (PriorCount >= 5 /\ pc[SeqSlot] = "done") =>
              /\ Cardinality(OwnRecords) = 1
              /\ \A t \in OwnRecords : t.isFlagged /\ t.flagReason = "high_frequency"

\* The sixth request of the sequence, posted when five had committed, has
\* committed with a flagged record.
C11_Witness ==
    /\ served = 6 /\ PriorCount = 5
    /\ pc[SeqSlot] = "done"
    /\ \E t \in OwnRecords : t.isFlagged /\ t.flagReason = "high_frequency"

\* Failures of the store or the connection, as the handlers can meet them
\* when no other request is running
StoreFailures == {"SaveWalletError", "SaveTransactionError", "CommitError"}

C15_AlertFailureHarmless ==
    (pc[SeqSlot] # "idle" /\ env[SeqSlot].alert = "failed") =>
        /\ PriorCount >= 5
        /\ fraudCheck[SeqSlot] = [isFlagged |-> TRUE, flagReason |-> "high_frequency"]
        /\ outcome[SeqSlot] = "InsufficientFunds" =>
              req[SeqSlot].amount.n > BalanceOf(docS[SeqSlot], req[SeqSlot].currency)
        /\ pc[SeqSlot] = "aborted" => cause[SeqSlot] \in StoreFailures
        /\ pc[SeqSlot] = "done" =>
              /\ Cardinality(OwnRecords) = 1
              /\ \A t \in OwnRecords : t.isFlagged /\ t.flagReason = "high_frequency"
              /\ BalanceOf(wallets[SeqCaller], "USD")
                    = BalanceOf(InitWallets[SeqCaller], "USD")
                        + Credited(SeqCaller, "USD") - Debited(SeqCaller, "USD")

\* A deposit whose alert failed has committed with a flagged record.
C15_Witness ==
    /\ env[SeqSlot].alert = "failed"
    /\ req[SeqSlot].kind = "deposit"
    /\ pc[SeqSlot] = "done" /\ outcome[SeqSlot] = "OK"
    /\ \E t \in OwnRecords : t.isFlagged /\ t.flagReason = "high_frequency"

\* C28: a request of the sequence for which an alert was sent goes on to
\* commit: it is not refused (insufficient funds, missing recipient wallet)
\* and not rolled back after a failure, and once it has committed its one
\* record carries isFlagged = TRUE and the reason the alert gave.
C28_AlertsMatchRecords ==
    (pc[SeqSlot] # "idle" /\ env[SeqSlot].alert = "sent") =>
        /\ pc[SeqSlot] \notin {"returned", "aborted"}
        /\ pc[SeqSlot] = "done" =>
              /\ Cardinality(OwnRecords) = 1
              /\ \A t \in OwnRecords :
                    t.isFlagged /\ t.flagReason = fraudCheck[SeqSlot].flagReason

----------------------------------------------------------------------------
\* Properties of checkFraudRules on its own

\* The user's withdrawals of the last hour in the history evaluated
HourWithdrawals ==
    {t \in fIn.txs : /\ t.type = "withdrawal" /\ t.fromUserId = fIn.userId
                     /\ t.createdAt >= Now - 3600000 /\ ~t.isDeleted}
\* The user's records of the last hour in the history evaluated
HourRecords ==
    {t \in fIn.txs : /\ (t.fromUserId = fIn.userId \/ t.toUserId = fIn.userId)
                     /\ t.createdAt >= Now - 3600000 /\ ~t.isDeleted}
\* A withdrawal was evaluated after three withdrawals of the last hour that
\* total 5,000
FourthWithdrawal ==
    /\ fDone /\ fIn.queryOk
    /\ fIn.transactionType = "withdrawal"
    /\ Cardinality(HourWithdrawals) = 3
    /\ SumAmounts(HourWithdrawals) = 500000

----------------------------------------------------------------------------
\* Properties of fraudDetectionJob on its own

\* The records of the window, as the claim describes it
WindowRecords ==
    {t \in DayCollection(scanIn) :
        /\ ~t.isDeleted
        /\ t.createdAt >= YesterdayMidnight /\ t.createdAt < TodayMidnight}
\* The records of the window a user takes part in, as source or destination
ParticipantCount(u) ==
    Cardinality({t \in WindowRecords : t.fromUserId = u \/ t.toUserId = u})
ReportedUsers == {d.userId : d \in scanOut.details}

\* C21: the daily scan, its query answering, reports with reason
\* excessive_daily_transactions exactly the users who take part, as source
\* or as destination, in more than 20 non-deleted records of the window
\* [previous midnight, this midnight): a user with 21 is reported, one with
\* 19 or 20 is not.
C21_DailyScanReport ==
    (scanDone /\ scanIn.queryOk) =>
        /\ ReportedUsers = {u \in UserIds : ParticipantCount(u) > 20}
        /\ \A d \in scanOut.details : d.reason = "excessive_daily_transactions"

====
